---- MODULE Spec2Model ----
(***************************************************************************)
(* CUE sheet to M3U playlist converter (cue_to_m3u.py).                    *)
(*                                                                         *)
(* Text is modelled as a sequence of one-character strings, so that the    *)
(* parser's prefix tests and regular expressions, the zero-padded number   *)
(* formatting and the renderer's string operations are computed, character *)
(* by character, as the Python code computes them.                          *)
(***************************************************************************)
EXTENDS Integers, Sequences, FiniteSets, TLC

VARIABLES
    pc,             \* position in convert_file / the function under study
    line,           \* the loop variable `line` of parse_cue_file (stripped)
    nread,          \* number of input lines consumed by the loop
    track_lines,    \* history: the TRACK directive lines consumed so far
    cue_sheet,      \* the CueSheet under construction / returned
    current_track,  \* the open CueTrack, or None
    opts,           \* keyword arguments of convert_to_m3u, or None
    out,            \* lines written to the output file
    result,         \* track count returned by convert_file, or None
    index,          \* argument of _index_to_seconds (conversion study)
    seconds,        \* value returned by _index_to_seconds, or None
    cwd,            \* the process's working directory (os.getcwd())
    dec,            \* opening and decoding the CUE file: environment, progress
    gui,            \* CueToM3uGUI: file list, button, worker thread, log
    batch           \* one batch run: its inputs, and the playlists written

vars == <<pc, line, nread, track_lines, cue_sheet, current_track, opts, out,
          result, index, seconds, cwd, dec, gui, batch>>

\* Python's None; an optional value x is held as <<x>>
None == <<>>

\* a working directory of the process
Cwd == <<"/", "c", "w", "d">>

(***************************************************************************)
(* Bounds of the model.                                                    *)
(***************************************************************************)
MaxLines == 4
MaxTracks == 3
MaxMin == 3
MaxSec == 59
MaxFrame == 76
MaxRenderTracks == 2
MaxGuiFiles == 2
MaxBatch == 2

(***************************************************************************)
(* Characters and character classes of Python's re module (ASCII part).    *)
(***************************************************************************)
Whitespace == {" ", "\t", "\n", "\r"}

DigitSeq == <<"0", "1", "2", "3", "4", "5", "6", "7", "8", "9">>

DigitChars == {DigitSeq[i] : i \in 1..10}

LetterChars ==
    {"a", "b", "c", "d", "e", "f", "g", "h", "i", "j", "k", "l", "m",
     "n", "o", "p", "q", "r", "s", "t", "u", "v", "w", "x", "y", "z",
     "A", "B", "C", "D", "E", "F", "G", "H", "I", "J", "K", "L", "M",
     "N", "O", "P", "Q", "R", "S", "T", "U", "V", "W", "X", "Y", "Z"}

WordChars == LetterChars \cup DigitChars \cup {"_"}

Quote == "\""

\* CD audio frames per second
FramesPerSecond == 75

(***************************************************************************)
(* String primitives.                                                      *)
(***************************************************************************)
StartsWith(s, p) == Len(s) >= Len(p) /\ SubSeq(s, 1, Len(p)) = p

\* first position >= i of s whose character is not in cls (Len(s)+1 if none)
RECURSIVE SkipClass(_, _, _)
SkipClass(s, i, cls) ==
    IF i <= Len(s) /\ s[i] \in cls THEN SkipClass(s, i + 1, cls) ELSE i

\* last position <= i of s whose character is not in cls (0 if none)
RECURSIVE SkipClassBack(_, _, _)
SkipClassBack(s, i, cls) ==
    IF i >= 1 /\ s[i] \in cls THEN SkipClassBack(s, i - 1, cls) ELSE i

\* str.strip()
Strip(s) ==
    SubSeq(s, SkipClass(s, 1, Whitespace), SkipClassBack(s, Len(s), Whitespace))

DigitVal(c) == (CHOOSE i \in 1..10 : DigitSeq[i] = c) - 1

\* int(s) for a non-empty string of decimal digits
RECURSIVE ToInt(_)
ToInt(s) ==
    IF Len(s) = 0 THEN 0
    ELSE 10 * ToInt(SubSeq(s, 1, Len(s) - 1)) + DigitVal(s[Len(s)])

\* str(n) for n >= 0
RECURSIVE NatToStr(_)
NatToStr(n) ==
    IF n < 10 THEN <<DigitSeq[n + 1]>>
    ELSE NatToStr(n \div 10) \o <<DigitSeq[(n % 10) + 1]>>

\* f"{n}"
IntToStr(n) == IF n < 0 THEN <<"-">> \o NatToStr(0 - n) ELSE NatToStr(n)

\* f"{n:02d}"
Pad2(n) ==
    LET s == IntToStr(n) IN IF Len(s) < 2 THEN <<"0">> \o s ELSE s

\* str.split(sep) for a one-character separator
RECURSIVE Split(_, _)
Split(s, sep) ==
    LET hits == {i \in 1..Len(s) : s[i] = sep} IN
    IF hits = {} THEN <<s>>
    ELSE LET k == CHOOSE i \in hits : \A j \in hits : i <= j
         IN <<SubSeq(s, 1, k - 1)>> \o Split(SubSeq(s, k + 1, Len(s)), sep)

(***************************************************************************)
(* The regular expressions of parse_cue_file.  A match is a record with    *)
(* the flag `matched` and the captured groups (empty when not matched).    *)
(***************************************************************************)
NoMatch == [matched |-> FALSE, groups |-> <<>>]

kwTITLE == <<"T", "I", "T", "L", "E">>
kwPERFORMER == <<"P", "E", "R", "F", "O", "R", "M", "E", "R">>
kwFILE == <<"F", "I", "L", "E">>
kwTRACK == <<"T", "R", "A", "C", "K">>
kwINDEX == <<"I", "N", "D", "E", "X">>

\* re.match(r'TRACK\s+(\d+)\s+(\w+)', l)
TrackMatch(l) ==
    LET b == SkipClass(l, 6, Whitespace)
        c == SkipClass(l, b, DigitChars)
        d == SkipClass(l, c, Whitespace)
        e == SkipClass(l, d, WordChars)
    IN IF StartsWith(l, kwTRACK) /\ b > 6 /\ c > b /\ d > c /\ e > d
       THEN [matched |-> TRUE,
             groups |-> <<SubSeq(l, b, c - 1), SubSeq(l, d, e - 1)>>]
       ELSE NoMatch

\* re.match(r'FILE\s+"(.+)"\s+(\w+)', l): the greedy (.+) runs to the last
\* quote that is followed by white space and a word
FileMatch(l) ==
    LET b == SkipClass(l, 5, Whitespace)
        closes == {j \in (b + 2)..Len(l) :
                     /\ l[j] = Quote
                     /\ SkipClass(l, j + 1, Whitespace) > j + 1
                     /\ SkipClass(l, SkipClass(l, j + 1, Whitespace), WordChars)
                            > SkipClass(l, j + 1, Whitespace)}
    IN IF StartsWith(l, kwFILE) /\ b > 5 /\ b <= Len(l) /\ l[b] = Quote
          /\ closes # {}
       THEN LET j == CHOOSE x \in closes : \A y \in closes : y <= x
                d == SkipClass(l, j + 1, Whitespace)
                e == SkipClass(l, d, WordChars)
            IN [matched |-> TRUE,
                groups |-> <<SubSeq(l, b + 1, j - 1), SubSeq(l, d, e - 1)>>]
       ELSE NoMatch

\* re.match(r'INDEX\s+(\d+)\s+(\d+):(\d+):(\d+)', l)
IndexMatch(l) ==
    LET b == SkipClass(l, 6, Whitespace)
        c == SkipClass(l, b, DigitChars)
        d == SkipClass(l, c, Whitespace)
        e == SkipClass(l, d, DigitChars)
        f == SkipClass(l, e + 1, DigitChars)
        g == SkipClass(l, f + 1, DigitChars)
    IN IF /\ StartsWith(l, kwINDEX) /\ b > 6 /\ c > b /\ d > c /\ e > d
          /\ e <= Len(l) /\ l[e] = ":" /\ f > e + 1
          /\ f <= Len(l) /\ l[f] = ":" /\ g > f + 1
       THEN [matched |-> TRUE,
             groups |-> <<SubSeq(l, b, c - 1), SubSeq(l, d, e - 1),
                          SubSeq(l, e + 1, f - 1), SubSeq(l, f + 1, g - 1)>>]
       ELSE NoMatch

\* _extract_quoted_value: re.search(r'"([^"]*)"', l), "" when there is none
_extract_quoted_value(l) ==
    LET quotes == {i \in 1..Len(l) : l[i] = Quote} IN
    IF Cardinality(quotes) >= 2
    THEN LET q1 == CHOOSE i \in quotes : \A j \in quotes : i <= j
             q2 == CHOOSE i \in quotes \ {q1} : \A j \in quotes \ {q1} : i <= j
         IN SubSeq(l, q1 + 1, q2 - 1)
    ELSE <<>>

\* the branch of the if/elif chain of the parse loop that a stripped line takes
Directive(l) ==
    IF StartsWith(l, kwTITLE) THEN "TITLE"
    ELSE IF StartsWith(l, kwPERFORMER) THEN "PERFORMER"
    ELSE IF StartsWith(l, kwFILE) THEN "FILE"
    ELSE IF StartsWith(l, kwTRACK) THEN "TRACK"
    ELSE IF StartsWith(l, kwINDEX) THEN "INDEX"
    ELSE "OTHER"

(***************************************************************************)
(* Data model: CueTrack and CueSheet as constructed by __init__.           *)
(***************************************************************************)
CueTrack ==
    [number |-> 0, title |-> <<>>, performer |-> <<>>, index |-> <<>>,
     file |-> <<>>, file_type |-> <<>>, duration |-> 0]

CueSheet ==
    [title |-> <<>>, performer |-> <<>>, file |-> <<>>, file_type |-> <<>>,
     tracks |-> <<>>]

\* the CUE file exists and its bytes are valid UTF-8: the first open() of
\* parse_cue_file has returned the lines
DecodedUtf8 ==
    [exists |-> TRUE, utf8 |-> "ok", ansi |-> "LookupError",
     detect |-> "ImportError", step |-> "decoded", tried |-> <<"utf-8">>,
     raised |-> None]

\* no batch run: no inputs, nothing written
BatchInit ==
    [input |-> <<>>, batch_mode |-> FALSE, output_directory |-> <<>>, i |-> 0,
     written |-> <<>>]

\* CueToM3uGUI.__init__: empty file list, batch mode off, no output directory,
\* Convert button enabled, no worker thread
GuiInit ==
    [input_files |-> <<>>, batch_mode |-> FALSE, output_directory |-> "unset",
     convert_button |-> "normal", threads |-> 0, worker |-> "none",
     it |-> 0, total_files |-> 0, successful_conversions |-> 0,
     total_tracks |-> 0, pressed |-> <<>>, log |-> <<>>, history |-> TRUE]

(***************************************************************************)
(* Input: the raw lines that f.readlines() may return.                     *)
(***************************************************************************)
\* TITLE "T"
rTITLE ==
    <<"T", "I", "T", "L", "E", " ", "\"", "T", "\"">>

\* PERFORMER "P"
rPERFORMER ==
    <<"P", "E", "R", "F", "O", "R", "M", "E", "R", " ", "\"", "P", "\"">>

\* FILE "a.wav" WAVE\n
rFILE_A ==
    <<"F", "I", "L", "E", " ", "\"", "a", ".", "w", "a", "v", "\"", " ", "W", "A", "V", "E", "\n">>

\* FILE "b.mp3" MP3
rFILE_B ==
    <<"F", "I", "L", "E", " ", "\"", "b", ".", "m", "p", "3", "\"", " ", "M", "P", "3">>

\* FILE a.wav WAVE
rFILE_BAD ==
    <<"F", "I", "L", "E", " ", "a", ".", "w", "a", "v", " ", "W", "A", "V", "E">>

\*   TRACK 01 AUDIO\n
rTRACK_1 ==
    <<" ", " ", "T", "R", "A", "C", "K", " ", "0", "1", " ", "A", "U", "D", "I", "O", "\n">>

\*   TRACK 02 AUDIO\n
rTRACK_2 ==
    <<" ", " ", "T", "R", "A", "C", "K", " ", "0", "2", " ", "A", "U", "D", "I", "O", "\n">>

\* TRACK AUDIO
rTRACK_BAD ==
    <<"T", "R", "A", "C", "K", " ", "A", "U", "D", "I", "O">>

\*     INDEX 01 00:00:00\n
rINDEX_A ==
    <<" ", " ", " ", " ", "I", "N", "D", "E", "X", " ", "0", "1", " ", "0", "0", ":", "0", "0", ":", "0", "0", "\n">>

\* INDEX 01 3:30:0
rINDEX_B ==
    <<"I", "N", "D", "E", "X", " ", "0", "1", " ", "3", ":", "3", "0", ":", "0">>

\*     INDEX 00 03:28:00\n
rINDEX_00 ==
    <<" ", " ", " ", " ", "I", "N", "D", "E", "X", " ", "0", "0", " ", "0", "3", ":", "2", "8", ":", "0", "0", "\n">>

\* REM x
rREM ==
    <<"R", "E", "M", " ", "x">>

InputLines ==
    {rTITLE,
     rPERFORMER,
     rFILE_A,
     rFILE_B,
     rFILE_BAD,
     rTRACK_1,
     rTRACK_2,
     rTRACK_BAD,
     rINDEX_A,
     rINDEX_B,
     rINDEX_00,
     rREM}

(***************************************************************************)
(* Duration pass.                                                          *)
(***************************************************************************)
\* _index_to_seconds adding the frames without dividing by 75
_index_to_seconds_frames(idx) ==
    LET parts == Split(idx, ":") IN
    IF Len(parts) = 3
    THEN ToInt(parts[1]) * 60 + ToInt(parts[2]) + ToInt(parts[3])
    ELSE 0

\* _index_to_seconds
_index_to_seconds(idx) ==
    LET parts == Split(idx, ":") IN
    IF Len(parts) = 3
    THEN ToInt(parts[1]) * 60 + ToInt(parts[2])
             + (ToInt(parts[3]) \div FramesPerSecond)
    ELSE 0

\* _calculate_durations subtracting the wrong way round
_calculate_durations_swapped(sheet) ==
    LET ts == sheet.tracks
        dur(i) ==
            IF ts[i].index # <<>>
            THEN IF i + 1 <= Len(ts)
                 THEN IF ts[i + 1].index # <<>>
                      THEN _index_to_seconds(ts[i].index)
                               - _index_to_seconds(ts[i + 1].index)
                      ELSE ts[i].duration
                 ELSE 0
            ELSE ts[i].duration
    IN [sheet EXCEPT
          !.tracks = [i \in 1..Len(ts) |-> [ts[i] EXCEPT !.duration = dur(i)]]]

\* _calculate_durations measuring an unknown end from time zero
_calculate_durations_open_end(sheet) ==
    LET ts == sheet.tracks
        dur(i) ==
            IF ts[i].index # <<>>
            THEN IF i + 1 <= Len(ts)
                 THEN _index_to_seconds(ts[i + 1].index)
                          - _index_to_seconds(ts[i].index)
                 ELSE 0
            ELSE ts[i].duration
    IN [sheet EXCEPT
          !.tracks = [i \in 1..Len(ts) |-> [ts[i] EXCEPT !.duration = dur(i)]]]

\* _calculate_durations: each track's duration depends only on the indices
_calculate_durations(sheet) ==
    LET ts == sheet.tracks
        dur(i) ==
            IF ts[i].index # <<>>
            THEN IF i + 1 <= Len(ts)
                 THEN IF ts[i + 1].index # <<>>
                      THEN _index_to_seconds(ts[i + 1].index)
                               - _index_to_seconds(ts[i].index)
                      ELSE ts[i].duration
                 ELSE 0
            ELSE ts[i].duration
    IN [sheet EXCEPT
          !.tracks = [i \in 1..Len(ts) |-> [ts[i] EXCEPT !.duration = dur(i)]]]

(***************************************************************************)
(* parse_cue_file: one action per branch of the loop body.                 *)
(***************************************************************************)
Init ==
    /\ pc = "parse"
    /\ line = <<>>
    /\ nread = 0
    /\ track_lines = <<>>
    /\ cue_sheet = CueSheet
    /\ current_track = None
    /\ opts = None
    /\ out = <<>>
    /\ result = None
    /\ index = <<>>
    /\ seconds = None
    /\ cwd = Cwd
    /\ dec = DecodedUtf8
    /\ gui = GuiInit
    /\ batch = BatchInit

\* `for line in lines: line = line.strip()` taking the branch d
Read(raw, d) ==
    /\ pc = "parse"
    /\ nread < MaxLines
    /\ Directive(Strip(raw)) = d
    /\ line' = Strip(raw)
    /\ nread' = nread + 1
    /\ UNCHANGED <<pc, opts, out, result, index, seconds,
                   cwd, dec, gui, batch>>

\* ParseTitle without the test for an open track
ParseTitle_sheet ==
    \E raw \in InputLines :
        /\ Read(raw, "TITLE")
        /\ cue_sheet' =
              [cue_sheet EXCEPT !.title = _extract_quoted_value(Strip(raw))]
        /\ UNCHANGED <<current_track, track_lines>>

ParseTitle ==
    \E raw \in InputLines :
        /\ Read(raw, "TITLE")
        /\ LET title == _extract_quoted_value(Strip(raw)) IN
           IF current_track # None
           THEN /\ current_track' = <<[current_track[1] EXCEPT !.title = title]>>
                /\ UNCHANGED cue_sheet
           ELSE /\ cue_sheet' = [cue_sheet EXCEPT !.title = title]
                /\ UNCHANGED current_track
        /\ UNCHANGED track_lines

ParsePerformer ==
    \E raw \in InputLines :
        /\ Read(raw, "PERFORMER")
        /\ LET performer == _extract_quoted_value(Strip(raw)) IN
           IF current_track # None
           THEN /\ current_track' =
                     <<[current_track[1] EXCEPT !.performer = performer]>>
                /\ UNCHANGED cue_sheet
           ELSE /\ cue_sheet' = [cue_sheet EXCEPT !.performer = performer]
                /\ UNCHANGED current_track
        /\ UNCHANGED track_lines

\* ParseFile that always sets the sheet-level file, open track or not
ParseFile_sheet ==
    \E raw \in InputLines :
        /\ Read(raw, "FILE")
        /\ LET file_match == FileMatch(Strip(raw)) IN
           IF file_match.matched
           THEN cue_sheet' = [cue_sheet EXCEPT
                                !.file = file_match.groups[1],
                                !.file_type = file_match.groups[2]]
           ELSE UNCHANGED cue_sheet
        /\ UNCHANGED <<current_track, track_lines>>

\* ParseFile that also updates the sheet-level file when a track is open
ParseFile_both ==
    \E raw \in InputLines :
        /\ Read(raw, "FILE")
        /\ LET file_match == FileMatch(Strip(raw)) IN
           IF file_match.matched
           THEN /\ cue_sheet' =
                      [cue_sheet EXCEPT
                         !.file = file_match.groups[1],
                         !.file_type = file_match.groups[2]]
                /\ current_track' =
                      IF current_track # None
                      THEN <<[current_track[1] EXCEPT
                                !.file = file_match.groups[1],
                                !.file_type = file_match.groups[2]]>>
                      ELSE current_track
           ELSE UNCHANGED <<cue_sheet, current_track>>
        /\ UNCHANGED track_lines

ParseFile ==
    \E raw \in InputLines :
        /\ Read(raw, "FILE")
        /\ LET file_match == FileMatch(Strip(raw)) IN
           IF file_match.matched
           THEN IF current_track # None
                THEN /\ current_track' =
                            <<[current_track[1] EXCEPT
                                 !.file = file_match.groups[1],
                                 !.file_type = file_match.groups[2]]>>
                     /\ UNCHANGED cue_sheet
                ELSE /\ cue_sheet' =
                            [cue_sheet EXCEPT
                               !.file = file_match.groups[1],
                               !.file_type = file_match.groups[2]]
                     /\ UNCHANGED current_track
           ELSE UNCHANGED <<cue_sheet, current_track>>
        /\ UNCHANGED track_lines

\* the CueTrack that a TRACK line opens
NewTrack(l, sheet) ==
    LET track_match == TrackMatch(l) IN
    IF track_match.matched
    THEN [CueTrack EXCEPT !.number = ToInt(track_match.groups[1]),
                          !.file = sheet.file,
                          !.file_type = sheet.file_type]
    ELSE CueTrack

ParseTrack ==
    \E raw \in InputLines :
        /\ Read(raw, "TRACK")
        /\ cue_sheet' =
              IF current_track # None
              THEN [cue_sheet EXCEPT !.tracks = Append(@, current_track[1])]
              ELSE cue_sheet
        /\ current_track' = <<NewTrack(Strip(raw), cue_sheet)>>
        /\ track_lines' = Append(track_lines, Strip(raw))

\* f"{minutes:02d}:{seconds:02d}:{frames:02d}"
FormatIndex(minutes, secs, frames) ==
    Pad2(minutes) \o <<":">> \o Pad2(secs) \o <<":">> \o Pad2(frames)

\* SetIndex without the test for index number "01"
SetIndex_any(l, track) ==
    LET index_match == IndexMatch(l) IN
    IF index_match.matched
    THEN [track EXCEPT !.index = FormatIndex(ToInt(index_match.groups[2]),
                                             ToInt(index_match.groups[3]),
                                             ToInt(index_match.groups[4]))]
    ELSE track

\* the open track after an INDEX line
SetIndex(l, track) ==
    LET index_match == IndexMatch(l) IN
    IF index_match.matched /\ index_match.groups[1] = <<"0", "1">>
    THEN [track EXCEPT !.index = FormatIndex(ToInt(index_match.groups[2]),
                                             ToInt(index_match.groups[3]),
                                             ToInt(index_match.groups[4]))]
    ELSE track

ParseIndex ==
    \E raw \in InputLines :
        /\ Read(raw, "INDEX")
        /\ current_track' =
              IF current_track # None
              THEN <<SetIndex(Strip(raw), current_track[1])>>
              ELSE current_track
        /\ UNCHANGED <<cue_sheet, track_lines>>

\* a line that no branch recognises
ParseOther ==
    \E raw \in InputLines :
        /\ Read(raw, "OTHER")
        /\ UNCHANGED <<cue_sheet, current_track, track_lines>>

\* EndOfInput without the commit of the last open track
EndOfInput_nocommit ==
    /\ pc = "parse"
    /\ pc' = "parsed"
    /\ cue_sheet' = _calculate_durations(cue_sheet)
    /\ UNCHANGED <<line, nread, track_lines, current_track, opts, out, result,
                   index, seconds,
                   cwd, dec, gui, batch>>

\* end of the loop: commit the open track, derive durations, return the sheet
EndOfInput ==
    /\ pc = "parse"
    /\ pc' = "parsed"
    /\ cue_sheet' =
          _calculate_durations(
              IF current_track # None
              THEN [cue_sheet EXCEPT !.tracks = Append(@, current_track[1])]
              ELSE cue_sheet)
    /\ UNCHANGED <<line, nread, track_lines, current_track, opts, out, result,
                   index, seconds,
                   cwd, dec, gui, batch>>

(***************************************************************************)
(* convert_to_m3u.                                                         *)
(***************************************************************************)
\* os.path.abspath for paths without ".", ".." or repeated separators
AbsPath(p) ==
    IF p = <<>> THEN cwd
    ELSE IF p[1] = "/" THEN p
    ELSE cwd \o <<"/">> \o p

\* s[-3:]
Last3(s) == SubSeq(s, IF Len(s) > 3 THEN Len(s) - 2 ELSE 1, Len(s))

\* s[:-3]
DropLast3(s) == SubSeq(s, 1, Len(s) - 3)

\* DisplayTitle without the fall-back to the sheet's performer
DisplayTitle_own(track, sheet) ==
    IF track.performer # <<>> /\ track.title # <<>>
    THEN track.performer \o <<" ", "-", " ">> \o track.title
    ELSE IF track.title # <<>> THEN track.title
    ELSE <<"T", "r", "a", "c", "k", " ">> \o Pad2(track.number)

\* display title of a track
DisplayTitle(track, sheet) ==
    LET performer == IF track.performer # <<>> THEN track.performer
                     ELSE sheet.performer
    IN IF performer # <<>> /\ track.title # <<>>
       THEN performer \o <<" ", "-", " ">> \o track.title
       ELSE IF track.title # <<>> THEN track.title
       ELSE <<"T", "r", "a", "c", "k", " ">> \o Pad2(track.number)

\* f"#EXTINF:{track.duration},{display_title}"
ExtInfLine(track, sheet) ==
    <<"#", "E", "X", "T", "I", "N", "F", ":">> \o IntToStr(track.duration) \o <<",">>
        \o DisplayTitle(track, sheet)

\* the path line written for a track
PathLine(track, o) ==
    LET file_path == IF o.wav_to_flac /\ Last3(track.file) = <<"w", "a", "v">>
                     THEN DropLast3(track.file) \o <<"f", "l", "a", "c">>
                     ELSE track.file
    IN IF o.relative_paths /\ file_path # <<>>
       THEN file_path
       ELSE AbsPath(file_path)

\* the lines written for tracks i..Len(sheet.tracks)
RECURSIVE WriteTracks(_, _, _)
WriteTracks(sheet, o, i) ==
    IF i > Len(sheet.tracks) THEN <<>>
    ELSE (IF o.extended THEN <<ExtInfLine(sheet.tracks[i], sheet)>> ELSE <<>>)
         \o <<PathLine(sheet.tracks[i], o)>>
         \o WriteTracks(sheet, o, i + 1)

\* the content of the output file, one element per line
M3uText(sheet, o) ==
    (IF o.extended THEN <<<<"#", "E", "X", "T", "M", "3", "U">>>> ELSE <<>>) \o WriteTracks(sheet, o, 1)

\* open(output_path, 'a'): the previous content stays
OpenForAppending(content) == content

\* open(output_path, 'w'): the previous content of the file is discarded
OpenForWriting(content) == <<>>

\* convert_file after parse_cue_file returned: render, return the track count
ConvertToM3u ==
    /\ pc = "parsed"
    /\ \E extended \in BOOLEAN, relative_paths \in BOOLEAN, wav_to_flac \in BOOLEAN :
          LET o == [extended |-> extended, relative_paths |-> relative_paths,
                    wav_to_flac |-> wav_to_flac]
          IN /\ opts' = <<o>>
             /\ out' = OpenForWriting(out) \o M3uText(cue_sheet, o)
    /\ result' = <<Len(cue_sheet.tracks)>>
    /\ pc' = "done"
    /\ UNCHANGED <<line, nread, track_lines, cue_sheet, current_track, index,
                   seconds,
                   cwd, dec, gui, batch>>

\* convert_to_m3u called once more for the same sheet and output path
ConvertAgain ==
    /\ pc = "done"
    /\ \E extended \in BOOLEAN, relative_paths \in BOOLEAN, wav_to_flac \in BOOLEAN :
          LET o == [extended |-> extended, relative_paths |-> relative_paths,
                    wav_to_flac |-> wav_to_flac]
          IN /\ opts' = <<o>>
             /\ out' = OpenForWriting(out) \o M3uText(cue_sheet, o)
    /\ UNCHANGED <<pc, line, nread, track_lines, cue_sheet, current_track,
                   result, index, seconds, cwd, dec, gui, batch>>

Next ==
    \/ ParseTitle
    \/ ParsePerformer
    \/ ParseFile
    \/ ParseTrack
    \/ ParseIndex
    \/ ParseOther
    \/ EndOfInput
    \/ ConvertToM3u

Spec == Init /\ [][Next]_vars

(***************************************************************************)
(* The duration pass on its own: _calculate_durations applied to the       *)
(* sheets the parse loop can leave behind (any mix of timestamps and       *)
(* files, durations still 0).                                              *)
(***************************************************************************)
\* timestamps as the INDEX branch stores them, and "" for no INDEX 01 line
TrackIndices ==
    {<<>>, FormatIndex(0, 0, 0), FormatIndex(3, 30, 0), FormatIndex(7, 15, 50)}

\* file names as the FILE branch stores them, and "" for none
TrackFiles == {<<>>, <<"a", ".", "w", "a", "v">>, <<"b", ".", "m", "p", "3">>}

ParsedTracks ==
    {[CueTrack EXCEPT !.index = ix, !.file = fl] :
        ix \in TrackIndices, fl \in TrackFiles}

InitDur ==
    /\ pc = "durations"
    /\ \E n \in 0..MaxTracks : \E ts \in [1..n -> ParsedTracks] :
          \E fl \in TrackFiles :
             cue_sheet = [CueSheet EXCEPT !.file = fl, !.tracks = ts]
    /\ line = <<>>
    /\ nread = 0
    /\ track_lines = <<>>
    /\ current_track = None
    /\ opts = None
    /\ out = <<>>
    /\ result = None
    /\ index = <<>>
    /\ seconds = None
    /\ cwd = Cwd
    /\ dec = DecodedUtf8
    /\ gui = GuiInit
    /\ batch = BatchInit

\* self._calculate_durations(cue_sheet); return cue_sheet
CalculateDurations ==
    /\ pc = "durations"
    /\ cue_sheet' = _calculate_durations(cue_sheet)
    /\ pc' = "parsed"
    /\ UNCHANGED <<line, nread, track_lines, current_track, opts, out, result,
                   index, seconds,
                   cwd, dec, gui, batch>>

NextDur == CalculateDurations

SpecDur == InitDur /\ [][NextDur]_vars

(***************************************************************************)
(* The renderer on its own: convert_to_m3u applied, once and again, to the *)
(* sheets parse_cue_file can return, under each working directory.         *)
(***************************************************************************)
\* the directory that holds the CUE document
CueDir == <<"/", "m", "u", "s", "i", "c">>

\* file names a FILE line can store, and "" for none
RenderFiles == {<<>>, <<"a", ".", "w", "a", "v">>, <<"b", ".", "w", "a", "v", "e">>, <<"s", "w", "a", "v">>, <<"/", "m", "/", "c", ".", "w", "a", "v">>}

\* timestamps an INDEX 01 line can store, and "" for none
RenderIndices == {<<>>, FormatIndex(7, 15, 50)}

RenderTracks ==
    {[CueTrack EXCEPT !.index = ix, !.file = fl] :
        ix \in RenderIndices, fl \in RenderFiles}

InitRender ==
    /\ pc = "parsed"
    /\ \E n \in 0..MaxRenderTracks : \E ts \in [1..n -> RenderTracks] :
          \E fl \in {<<>>, <<"a", ".", "w", "a", "v">>} :
             cue_sheet = _calculate_durations(
                             [CueSheet EXCEPT !.file = fl, !.tracks = ts])
    /\ cwd \in {Cwd, CueDir}
    /\ line = <<>>
    /\ nread = 0
    /\ track_lines = <<>>
    /\ current_track = None
    /\ opts = None
    /\ out = <<>>
    /\ result = None
    /\ index = <<>>
    /\ seconds = None
    /\ dec = DecodedUtf8
    /\ gui = GuiInit
    /\ batch = BatchInit

NextRender ==
    \/ ConvertToM3u
    \/ ConvertAgain

SpecRender == InitRender /\ [][NextRender]_vars

(***************************************************************************)
(* _index_to_seconds on its own, over formatted timestamps and over        *)
(* strings that do not have three colon-separated parts.                   *)
(***************************************************************************)
MalformedIndices == {<<>>, <<"0", "3", ":", "0", "2">>, <<"1", ":", "2", ":", "3", ":", "4">>, <<"1", "8", "2">>}

InitTs ==
    /\ pc = "index"
    /\ index \in {FormatIndex(m, sc, f) :
                    m \in 0..MaxMin, sc \in 0..MaxSec, f \in 0..MaxFrame}
                 \cup MalformedIndices
    /\ seconds = None
    /\ line = <<>>
    /\ nread = 0
    /\ track_lines = <<>>
    /\ cue_sheet = CueSheet
    /\ current_track = None
    /\ opts = None
    /\ out = <<>>
    /\ result = None
    /\ cwd = Cwd
    /\ dec = DecodedUtf8
    /\ gui = GuiInit
    /\ batch = BatchInit

IndexToSeconds ==
    /\ pc = "index"
    /\ seconds' = <<_index_to_seconds(index)>>
    /\ pc' = "index_done"
    /\ UNCHANGED <<line, nread, track_lines, cue_sheet, current_track, opts,
                   out, result, index,
                   cwd, dec, gui, batch>>

NextTs == IndexToSeconds

SpecTs == InitTs /\ [][NextTs]_vars

(***************************************************************************)
(* Opening the CUE file: the existence test of convert_file and the three  *)
(* nested attempts of parse_cue_file to read the lines.  What each attempt *)
(* does depends on the file's bytes and on the platform; that environment  *)
(* is drawn at the start:                                                  *)
(*   utf8    open(.., encoding='utf-8') reads, or raises UnicodeDecodeError*)
(*   ansi    open(.., encoding='ANSI') reads or raises UnicodeDecodeError  *)
(*           where the codec exists (Windows, alias of mbcs); elsewhere it *)
(*           raises LookupError (unknown encoding)                         *)
(*   detect  charset_normalizer is not installed (ImportError), finds no   *)
(*           encoding (best() is None: AttributeError), or names one with  *)
(*           which open() reads or raises UnicodeDecodeError               *)
(***************************************************************************)
InitDecode ==
    /\ pc = "open"
    /\ dec \in [exists : BOOLEAN,
                utf8 : {"ok", "UnicodeDecodeError"},
                ansi : {"ok", "UnicodeDecodeError", "LookupError"},
                detect : {"ok", "UnicodeDecodeError", "None", "ImportError"},
                step : {"exists"},
                tried : {<<>>},
                raised : {None}]
    /\ line = <<>>
    /\ nread = 0
    /\ track_lines = <<>>
    /\ cue_sheet = CueSheet
    /\ current_track = None
    /\ opts = None
    /\ out = <<>>
    /\ result = None
    /\ index = <<>>
    /\ seconds = None
    /\ cwd = Cwd
    /\ gui = GuiInit
    /\ batch = BatchInit

\* everything but dec
notDec == <<pc, line, nread, track_lines, cue_sheet, current_track, opts, out,
            result, index, seconds, cwd, gui, batch>>

\* convert_file: if not os.path.exists(cue_file_path): raise FileNotFoundError
CheckExists ==
    /\ dec.step = "exists"
    /\ dec' = IF dec.exists
              THEN [dec EXCEPT !.step = "utf-8"]
              ELSE [dec EXCEPT !.step = "failed",
                               !.raised = <<"FileNotFoundError">>]
    /\ UNCHANGED notDec

\* try: open(cue_file_path, 'r', encoding='utf-8') ... except UnicodeDecodeError
TryUtf8 ==
    /\ dec.step = "utf-8"
    /\ dec' = [dec EXCEPT !.tried = Append(@, "utf-8"),
                          !.step = IF dec.utf8 = "ok" THEN "decoded" ELSE "ANSI"]
    /\ UNCHANGED notDec

\* try: open(cue_file_path, 'r', encoding='ANSI') ... except UnicodeDecodeError;
\* any other exception leaves parse_cue_file
TryAnsi ==
    /\ dec.step = "ANSI"
    /\ dec' = [dec EXCEPT
                 !.tried = Append(@, "ANSI"),
                 !.step = IF dec.ansi = "ok" THEN "decoded"
                          ELSE IF dec.ansi = "UnicodeDecodeError" THEN "detect"
                          ELSE "failed",
                 !.raised = IF dec.ansi \in {"ok", "UnicodeDecodeError"}
                            THEN None ELSE <<dec.ansi>>]
    /\ UNCHANGED notDec

\* from_path(cue_file_path).best(), then open with result.encoding; nothing
\* is caught here
TryDetect ==
    /\ dec.step = "detect"
    /\ dec' = [dec EXCEPT
                 !.tried = Append(@, "detect"),
                 !.step = IF dec.detect = "ok" THEN "decoded" ELSE "failed",
                 !.raised = IF dec.detect = "ok" THEN None
                            ELSE IF dec.detect = "None"
                            THEN <<"AttributeError">>
                            ELSE <<dec.detect>>]
    /\ UNCHANGED notDec

NextDecode ==
    \/ CheckExists
    \/ TryUtf8
    \/ TryAnsi
    \/ TryDetect

SpecDecode == InitDecode /\ [][NextDecode]_vars

(***************************************************************************)
(* The graphical interface.  The handlers of the main thread (add, remove, *)
(* clear, batch mode, output directory, Convert) run one at a time; the    *)
(* worker thread started by Convert runs beside them and reads the same    *)
(* self.input_files, self.batch_mode and self.output_directory.  The       *)
(* worker is cut where it reads that shared state: at len(), and at every  *)
(* step of the iterator of enumerate(self.input_files).                    *)
(*   pressed  the list as it was when Convert was pressed: a history       *)
(*            variable, kept only while history is TRUE                    *)
(*   log      the messages the worker has written since that press         *)
(***************************************************************************)
GuiFileNames == <<"/x/a.cue", "/x/b.cue", "/y/a.cue">>

GuiFiles ==
    {GuiFileNames[i] : i \in 1..(IF MaxGuiFiles < Len(GuiFileNames)
                                 THEN MaxGuiFiles ELSE Len(GuiFileNames))}

\* what a dialog, a drop or a paste hands over: one file at a time (the
\* worker can run between two appends of a longer selection)
Selections == {<<f>> : f \in GuiFiles}

\* what convert_file can raise for one file (the CUE file is missing, cannot
\* be decoded, the playlist cannot be written): the worker catches Exception
\* and tells the cases apart by the message only
ConvertErrors == {"Exception"}

\* the files on disk that convert_file cannot read (missing by now, or not
\* decodable)
Unreadable == {GuiFileNames[2]}

\* convert_file returns (output_path, len(tracks)), "", or raises: the file
\* cannot be read, or the playlist cannot be opened because the output
\* directory is missing
ConvertOutcomes(cue_file) ==
    IF \/ cue_file \in Unreadable
       \/ ~gui.batch_mode /\ gui.output_directory = "missing"
    THEN ConvertErrors
    ELSE {""}

\* len(cue_sheet.tracks) of a file: the files differ in their track counts
TrackCount(cue_file) ==
    CHOOSE n \in 1..Len(GuiFileNames) : GuiFileNames[n] = cue_file

LogEntry(kind, file, exc, tracks, ok, total) ==
    [kind |-> kind, file |-> file, exc |-> exc, tracks |-> tracks, ok |-> ok,
     total |-> total]

InitGui ==
    /\ pc = "gui"
    /\ gui = GuiInit
    /\ batch = BatchInit
    /\ line = <<>>
    /\ nread = 0
    /\ track_lines = <<>>
    /\ cue_sheet = CueSheet
    /\ current_track = None
    /\ opts = None
    /\ out = <<>>
    /\ result = None
    /\ index = <<>>
    /\ seconds = None
    /\ cwd = Cwd
    /\ dec = DecodedUtf8

\* everything but gui
notGui == <<pc, line, nread, track_lines, cue_sheet, current_track, opts, out,
            result, index, seconds, cwd, dec, batch>>

\* for file in files: if file not in self.input_files: append
RECURSIVE AppendNew(_, _)
AppendNew(input_files, files) ==
    IF files = <<>> THEN input_files
    ELSE AppendNew(IF \E i \in 1..Len(input_files) : input_files[i] = Head(files)
                   THEN input_files
                   ELSE Append(input_files, Head(files)),
                   Tail(files))

AddFiles ==
    \E files \in Selections :
        /\ gui' = [gui EXCEPT !.input_files = AppendNew(@, files)]
        /\ UNCHANGED notGui

\* del self.input_files[index]
DelAt(input_files, i) ==
    SubSeq(input_files, 1, i - 1) \o SubSeq(input_files, i + 1, Len(input_files))

\* for index in reversed(selected): del self.input_files[index]
RECURSIVE DelReversed(_, _)
DelReversed(input_files, selected) ==
    IF selected = {} THEN input_files
    ELSE LET last == CHOOSE i \in selected : \A j \in selected : j <= i
         IN  DelReversed(DelAt(input_files, last), selected \ {last})

\* remove_selected returns at once when nothing is selected
RemoveSelected ==
    \E selected \in SUBSET (1..Len(gui.input_files)) :
        /\ selected # {}
        /\ gui' = [gui EXCEPT !.input_files = DelReversed(@, selected)]
        /\ UNCHANGED notGui

ClearAll ==
    /\ gui' = [gui EXCEPT !.input_files = <<>>]
    /\ UNCHANGED notGui

\* the batch mode checkbox
ToggleBatchMode ==
    /\ gui' = [gui EXCEPT !.batch_mode = ~@]
    /\ UNCHANGED notGui

\* the output directory, chosen by Browse or typed into the entry: a
\* directory that exists ("ok") or one that does not ("missing")
BrowseOutput ==
    \E directory \in {"ok", "missing"} :
        /\ gui' = [gui EXCEPT !.output_directory = directory]
        /\ UNCHANGED notGui

\* convert_files: returns after a warning when the list is empty or, outside
\* batch mode, when the output directory is unset or missing; else disables
\* the button and starts the worker thread.  A disabled button is not pressed.
ConvertFiles ==
    /\ gui.convert_button = "normal"
    /\ gui.input_files # <<>>
    /\ gui.batch_mode \/ gui.output_directory = "ok"
    /\ gui' = [gui EXCEPT !.convert_button = "disabled",
                          !.threads = @ + 1,
                          !.worker = "started",
                          !.pressed = IF gui.history THEN gui.input_files ELSE <<>>,
                          !.log = <<>>]
    /\ UNCHANGED notGui

\* convert_worker up to the for statement: total_files = len(self.input_files)
WorkerStart ==
    /\ gui.worker = "started"
    /\ gui' = [gui EXCEPT
                 !.worker = "loop",
                 !.it = 0,
                 !.total_files = Len(gui.input_files),
                 !.total_tracks = 0,
                 !.successful_conversions = 0,
                 !.log = Append(@, LogEntry("start", "", "", 0, 0,
                                            Len(gui.input_files)))]
    /\ UNCHANGED notGui

\* one turn of for i, cue_file in enumerate(self.input_files): the list
\* iterator hands out self.input_files[i] while i < len(self.input_files) and
\* ends the loop otherwise.  In the body, i / total_files raises
\* ZeroDivisionError before convert_file is called when total_files is 0, and
\* the playlist cannot be opened when the output directory is missing; every
\* exception is logged with the file's name and the loop goes on.
\* the loop body's effect for cue_file: the tallies and the log line
Logged(cue_file, exc, tracks) ==
    [gui EXCEPT
       !.it = @ + 1,
       !.successful_conversions = IF exc = "" THEN @ + 1 ELSE @,
       !.total_tracks = IF exc = "" THEN @ + tracks ELSE @,
       !.log = Append(@, IF exc = ""
                         THEN LogEntry("ok", cue_file, "", tracks, 0, 0)
                         ELSE LogEntry("error", cue_file, exc, 0, 0, 0))]

WorkerNext ==
    /\ gui.worker = "loop"
    /\ IF gui.it < Len(gui.input_files)
       THEN LET cue_file == gui.input_files[gui.it + 1]
            IN  IF gui.total_files = 0
                THEN gui' = Logged(cue_file, "ZeroDivisionError", 0)
                ELSE \E exc \in ConvertOutcomes(cue_file) :
                       gui' = Logged(cue_file, exc, TrackCount(cue_file))
       ELSE gui' = [gui EXCEPT !.worker = "summary"]
    /\ UNCHANGED notGui

\* WorkerFinish without the finally clause: the button stays disabled
WorkerFinish_no_finally ==
    /\ gui.worker = "summary"
    /\ gui' = [gui EXCEPT
                 !.worker = "none",
                 !.threads = @ - 1,
                 !.it = 0,
                 !.total_files = 0,
                 !.successful_conversions = 0,
                 !.total_tracks = 0,
                 !.log = Append(@, LogEntry("summary", "", "", gui.total_tracks,
                                            gui.successful_conversions,
                                            gui.total_files))]
    /\ UNCHANGED notGui

\* the summary message, then finally: the button is enabled again; the
\* thread ends and its local variables with it
WorkerFinish ==
    /\ gui.worker = "summary"
    /\ gui' = [gui EXCEPT
                 !.worker = "none",
                 !.threads = @ - 1,
                 !.convert_button = "normal",
                 !.it = 0,
                 !.total_files = 0,
                 !.successful_conversions = 0,
                 !.total_tracks = 0,
                 !.log = Append(@, LogEntry("summary", "", "", gui.total_tracks,
                                            gui.successful_conversions,
                                            gui.total_files))]
    /\ UNCHANGED notGui

\* an exception outside the per-file try (a call into Tk from the worker
\* fails): except Exception logs it as unexpected, then finally: as above
WorkerUnexpected ==
    /\ gui.worker \in {"started", "loop", "summary"}
    /\ gui' = [gui EXCEPT
                 !.worker = "none",
                 !.threads = @ - 1,
                 !.convert_button = "normal",
                 !.it = 0,
                 !.total_files = 0,
                 !.successful_conversions = 0,
                 !.total_tracks = 0,
                 !.log = Append(@, LogEntry("unexpected", "", "Exception",
                                            0, 0, 0))]
    /\ UNCHANGED notGui

NextGui ==
    \/ AddFiles
    \/ ClearAll
    \/ RemoveSelected
    \/ ToggleBatchMode
    \/ BrowseOutput
    \/ ConvertFiles
    \/ WorkerStart
    \/ WorkerNext
    \/ WorkerFinish
    \/ WorkerUnexpected

SpecGui == InitGui /\ [][NextGui]_vars

\* the interface without the history variable
InitGuiLive ==
    /\ pc = "gui"
    /\ gui = [GuiInit EXCEPT !.history = FALSE]
    /\ batch = BatchInit
    /\ line = <<>>
    /\ nread = 0
    /\ track_lines = <<>>
    /\ cue_sheet = CueSheet
    /\ current_track = None
    /\ opts = None
    /\ out = <<>>
    /\ result = None
    /\ index = <<>>
    /\ seconds = None
    /\ cwd = Cwd
    /\ dec = DecodedUtf8

\* the worker is a thread of its own: the interpreter keeps scheduling it,
\* whatever the user does in the main thread
SpecGuiLive ==
    /\ InitGuiLive
    /\ [][NextGui]_vars
    /\ WF_vars(WorkerStart)
    /\ WF_vars(WorkerNext)
    /\ WF_vars(WorkerFinish)

(***************************************************************************)
(* Where a batch run writes its playlists.  The run is the worker's loop   *)
(* (or the command line's, which always takes the batch-mode branch) over  *)
(* a list that nobody edits; each turn either writes the playlist of the   *)
(* next file or fails and goes on.                                         *)
(***************************************************************************)
\* position of the last c in s, 0 if there is none
LastIndexOf(s, c) ==
    LET hits == {k \in 1..Len(s) : s[k] = c}
    IN  IF hits = {} THEN 0 ELSE CHOOSE k \in hits : \A j \in hits : j <= k

\* os.path.basename (posixpath)
Basename(p) == SubSeq(p, LastIndexOf(p, "/") + 1, Len(p))

\* os.path.dirname (posixpath): the head up to the last slash, without
\* trailing slashes unless it is all slashes
Dirname(p) ==
    LET head == SubSeq(p, 1, LastIndexOf(p, "/"))
        end == SkipClassBack(head, Len(head), {"/"})
    IN  IF end = 0 THEN head ELSE SubSeq(head, 1, end)

\* os.path.splitext(name)[0]: the extension starts at the last dot, unless
\* only dots come before it
SplitextRoot(name) ==
    LET dot == LastIndexOf(name, ".")
    IN  IF dot > 0 /\ SkipClass(name, 1, {"."}) < dot
        THEN SubSeq(name, 1, dot - 1)
        ELSE name

\* os.path.join(a, b) (posixpath)
Join(a, b) ==
    IF StartsWith(b, <<"/">>) THEN b
    ELSE IF a = <<>> \/ a[Len(a)] = "/" THEN a \o b
    ELSE a \o <<"/">> \o b

M3uExt == <<".", "m", "3", "u">>

\* convert_file with output_path None: beside the CUE file
DefaultOutputPath(cue_file_path) ==
    LET cue_dir == Dirname(AbsPath(cue_file_path))
        base_name == SplitextRoot(Basename(cue_file_path))
    IN  Join(cue_dir, base_name \o M3uExt)

\* the worker's choice of output_path, and convert_file's default for None
OutputPath(cue_file, batch_mode, output_directory) ==
    IF batch_mode
    THEN DefaultOutputPath(cue_file)
    ELSE Join(output_directory, SplitextRoot(Basename(cue_file)) \o M3uExt)

\* files that can be in one list: the list keeps out equal paths only
BatchFiles ==
    {<<"/", "x", "/", "a", ".", "c", "u", "e">>,
     <<"/", "y", "/", "a", ".", "c", "u", "e">>,
     <<"/", "x", "/", "b", ".", "c", "u", "e">>,
     <<"/", "x", "/", "a", ".", "C", "U", "E">>}

OutputDirectories ==
    {<<"/", "o", "u", "t">>,
     <<"/", "x", "/">>}

\* lists of up to MaxBatch different files
BatchInputs ==
    {q \in UNION {[1..n -> BatchFiles] : n \in 1..MaxBatch} :
        \A j, k \in 1..Len(q) : j # k => q[j] # q[k]}

InitBatch ==
    /\ pc = "batch"
    /\ \E input \in BatchInputs, batch_mode \in BOOLEAN,
          output_directory \in OutputDirectories :
          /\ batch_mode => output_directory = <<"/", "o", "u", "t">>
          /\ batch = [BatchInit EXCEPT !.input = input,
                                       !.batch_mode = batch_mode,
                                       !.output_directory = output_directory]
    /\ line = <<>>
    /\ nread = 0
    /\ track_lines = <<>>
    /\ cue_sheet = CueSheet
    /\ current_track = None
    /\ opts = None
    /\ out = <<>>
    /\ result = None
    /\ index = <<>>
    /\ seconds = None
    /\ cwd = Cwd
    /\ dec = DecodedUtf8
    /\ gui = GuiInit

\* everything but batch
notBatch == <<pc, line, nread, track_lines, cue_sheet, current_track, opts, out,
              result, index, seconds, cwd, dec, gui>>

\* one turn of the loop in which convert_file returns: the playlist of
\* cue_file has been opened for writing at its output path
BatchConvert ==
    /\ batch.i < Len(batch.input)
    /\ LET cue_file == batch.input[batch.i + 1]
       IN  batch' = [batch EXCEPT
                       !.i = @ + 1,
                       !.written = Append(@,
                           [file |-> cue_file,
                            path |-> OutputPath(cue_file, batch.batch_mode,
                                                batch.output_directory)])]
    /\ UNCHANGED notBatch

\* one turn in which convert_file raises before it opens the playlist: the
\* error is logged and the loop goes on
BatchFail ==
    /\ batch.i < Len(batch.input)
    /\ batch' = [batch EXCEPT !.i = @ + 1]
    /\ UNCHANGED notBatch

NextBatch ==
    \/ BatchConvert
    \/ BatchFail

SpecBatch == InitBatch /\ [][NextBatch]_vars

(***************************************************************************)
(* Properties.                                                             *)
(***************************************************************************)
\* a step of the parse loop that consumed a line taking branch d
Consumed(d) ==
    pc = "parse" /\ nread' = nread + 1 /\ Directive(line') = d

\* the output line that carries the path of track i
PathLineAt(i) == out[IF opts[1].extended THEN 2 * i + 1 ELSE i]

\* the effective file of a track: its own, else the sheet's
EffectiveFile(t) == IF t.file # <<>> THEN t.file ELSE cue_sheet.file

\* the value of the two decimal digits at positions k, k+1
TwoDigits(s, k) == 10 * DigitVal(s[k]) + DigitVal(s[k + 1])

\* s has the shape DD:DD:DD
IsClock(s) ==
    /\ Len(s) = 8
    /\ s[3] = ":" /\ s[6] = ":"
    /\ \A k \in {1, 2, 4, 5, 7, 8} : s[k] \in DigitChars

\* whole seconds of a DD:DD:DD timestamp, the frame part discarded
ClockSeconds(s) == TwoDigits(s, 1) * 60 + TwoDigits(s, 4)

\* C1: when convert_to_m3u has run, the path line of every track that has no
\* effective file (own file empty, sheet file empty) is an error marker: it
\* is neither blank nor path text such as the working directory.
C1_MarkerForMissingFile ==
    pc = "done" =>
        \A i \in 1..Len(cue_sheet.tracks) :
            EffectiveFile(cue_sheet.tracks[i]) = <<>> =>
                /\ PathLineAt(i) # <<>>
                /\ PathLineAt(i) # cwd

\* C2: every line handled as a TRACK directive opens a track whose file and
\* file type are the sheet-level file and file type held at that moment,
\* whatever the rest of the line looks like.
C2_TrackInheritsSheetFile ==
    [][Consumed("TRACK") =>
           /\ current_track' # None
           /\ current_track'[1].file = cue_sheet.file
           /\ current_track'[1].file_type = cue_sheet.file_type]_vars

\* C3: the track list holds exactly one track per TRACK line, in the order of
\* the TRACK lines: while parsing, the committed tracks plus the open one are
\* the tracks of the TRACK lines read so far; after the parse every one of
\* them is in the list, and convert_file returns their count.
C3_OneTrackPerTrackLine ==
    LET ts == cue_sheet.tracks
        all == IF pc = "parse" /\ current_track # None
               THEN Append(ts, current_track[1]) ELSE ts
    IN /\ Len(all) = Len(track_lines)
       /\ \A i \in 1..Len(all) :
             all[i].number = IF TrackMatch(track_lines[i]).matched
                             THEN ToInt(TrackMatch(track_lines[i]).groups[1])
                             ELSE 0
       /\ pc = "parse" => (current_track = None <=> track_lines = <<>>)
       /\ pc = "done" => result = <<Len(track_lines)>>

C3_Witness ==
    /\ pc = "done"
    /\ result = <<3>>
    /\ cue_sheet.tracks[1].number = 2
    /\ cue_sheet.tracks[2].number = 0
    /\ cue_sheet.tracks[3].number = 1

\* the effect of a TITLE or PERFORMER line on field fld
MetaEffect(fld) ==
    LET v == _extract_quoted_value(line') IN
    IF current_track = None
    THEN /\ cue_sheet' = [cue_sheet EXCEPT ![fld] = v]
         /\ current_track' = None
    ELSE /\ current_track' = <<[current_track[1] EXCEPT ![fld] = v]>>
         /\ cue_sheet' = cue_sheet

\* C4: a TITLE or PERFORMER line read before any TRACK line sets the sheet's
\* field and no track's; read after a TRACK line it sets the field of the
\* open track only, the sheet and the committed tracks staying as they were.
C4_MetaTargetsOpenTrackOrSheet ==
    [][/\ Consumed("TITLE") => MetaEffect("title")
       /\ Consumed("PERFORMER") => MetaEffect("performer")
       /\ (Consumed("TITLE") /\ line' = Strip(rTITLE)
              /\ current_track # None) => current_track'[1].title = <<"T">>
       /\ (Consumed("PERFORMER") /\ line' = Strip(rPERFORMER)
              /\ current_track = None) => cue_sheet'.performer = <<"P">>
       /\ pc = "parse" => (current_track = None <=> track_lines = <<>>)]_vars

C4_Witness ==
    /\ pc = "parse"
    /\ line = Strip(rTITLE)
    /\ cue_sheet.performer = <<"P">>
    /\ cue_sheet.title = <<>>
    /\ Len(cue_sheet.tracks) = 1
    /\ cue_sheet.tracks[1].title = <<>>
    /\ cue_sheet.tracks[1].performer = <<>>
    /\ current_track # None
    /\ current_track[1].title = <<"T">>

\* C5: a well-formed FILE line sets file name and type on the open track when
\* there is one (sheet-level file and committed tracks unchanged), else on
\* the sheet (no track changed).
C5_FileTargetsOpenTrackOrSheet ==
    [][(Consumed("FILE") /\ FileMatch(line').matched) =>
           LET name == FileMatch(line').groups[1]
               type == FileMatch(line').groups[2]
           IN /\ IF current_track = None
                 THEN /\ cue_sheet' = [cue_sheet EXCEPT !.file = name,
                                                        !.file_type = type]
                      /\ current_track' = None
                 ELSE /\ current_track' = <<[current_track[1] EXCEPT
                                               !.file = name,
                                               !.file_type = type]>>
                      /\ cue_sheet' = cue_sheet
              /\ line' = Strip(rFILE_A) => (name = <<"a", ".", "w", "a", "v">> /\ type = <<"W", "A", "V", "E">>)
              /\ line' = Strip(rFILE_B) => (name = <<"b", ".", "m", "p", "3">> /\ type = <<"M", "P", "3">>)]_vars

C5_Witness ==
    /\ pc = "parse"
    /\ line = Strip(rFILE_B)
    /\ cue_sheet.file = <<"a", ".", "w", "a", "v">>
    /\ Len(cue_sheet.tracks) = 1
    /\ cue_sheet.tracks[1].file = <<"a", ".", "w", "a", "v">>
    /\ current_track # None
    /\ current_track[1].file = <<"b", ".", "m", "p", "3">>
    /\ current_track[1].file_type = <<"M", "P", "3">>

\* the timestamps of the committed tracks followed by that of the open track
Timestamps ==
    [i \in 1..Len(cue_sheet.tracks) |-> cue_sheet.tracks[i].index]
        \o (IF pc = "parse" /\ current_track # None
            THEN <<current_track[1].index>> ELSE <<>>)

\* the line is INDEX 01 with a timestamp
IsIndex01(l) ==
    IndexMatch(l).matched /\ IndexMatch(l).groups[1] = <<"0", "1">>

\* C6: only an INDEX 01 line read while a track is open sets a timestamp,
\* that of the open track, as zero-padded MM:SS:FF; a TRACK line opens a
\* track with an empty timestamp; every other step (INDEX with another
\* number, INDEX with no open track, any other line, end of input) leaves
\* all timestamps unchanged.
C6_OnlyIndex01SetsTimestamp ==
    [][IF Consumed("INDEX") /\ current_track # None /\ IsIndex01(line')
       THEN /\ Timestamps' =
                  [Timestamps EXCEPT ![Len(Timestamps)] = current_track'[1].index]
            /\ IsClock(current_track'[1].index)
            /\ TwoDigits(current_track'[1].index, 1)
                   = ToInt(IndexMatch(line').groups[2])
            /\ TwoDigits(current_track'[1].index, 4)
                   = ToInt(IndexMatch(line').groups[3])
            /\ TwoDigits(current_track'[1].index, 7)
                   = ToInt(IndexMatch(line').groups[4])
            /\ line' = Strip(rINDEX_B) => current_track'[1].index = <<"0", "3", ":", "3", "0", ":", "0", "0">>
       ELSE IF Consumed("TRACK")
       THEN Timestamps' = Append(Timestamps, <<>>)
       ELSE Timestamps' = Timestamps]_vars

C6_Witness ==
    /\ pc = "parse"
    /\ line = Strip(rINDEX_00)
    /\ Len(cue_sheet.tracks) = 1
    /\ cue_sheet.tracks[1].index = <<>>
    /\ current_track # None
    /\ current_track[1].index = <<"0", "3", ":", "3", "0", ":", "0", "0">>

\* C7: after the duration pass, a track with a known timestamp followed by a
\* track with a known timestamp lasts from its own timestamp to the next
\* one's, in whole seconds; tracks at 00:00:00, 03:30:00, 07:15:50 give 210
\* and 225 for the first two.
C7_DurationIsDistanceToNext ==
    pc = "parsed" =>
        LET ts == cue_sheet.tracks IN
        /\ \A i \in 1..(Len(ts) - 1) :
              (ts[i].index # <<>> /\ ts[i + 1].index # <<>>) =>
                  ts[i].duration = ClockSeconds(ts[i + 1].index)
                                       - ClockSeconds(ts[i].index)
        /\ (/\ Len(ts) = 3
            /\ ts[1].index = <<"0", "0", ":", "0", "0", ":", "0", "0">>
            /\ ts[2].index = <<"0", "3", ":", "3", "0", ":", "0", "0">>
            /\ ts[3].index = <<"0", "7", ":", "1", "5", ":", "5", "0">>)
               => (ts[1].duration = 210 /\ ts[2].duration = 225)

C7_Witness ==
    /\ pc = "parsed"
    /\ Len(cue_sheet.tracks) = 3
    /\ cue_sheet.tracks[1].index = <<"0", "0", ":", "0", "0", ":", "0", "0">>
    /\ cue_sheet.tracks[2].index = <<"0", "3", ":", "3", "0", ":", "0", "0">>
    /\ cue_sheet.tracks[3].index = <<"0", "7", ":", "1", "5", ":", "5", "0">>
    /\ cue_sheet.tracks[1].duration = 210
    /\ cue_sheet.tracks[2].duration = 225

\* every track's effective file equals the first track's
SingleFile ==
    \A i \in 1..Len(cue_sheet.tracks) :
        EffectiveFile(cue_sheet.tracks[i]) = EffectiveFile(cue_sheet.tracks[1])

\* track i is the final track or is followed by a track without timestamp
OpenEnded(i) ==
    i = Len(cue_sheet.tracks) \/ cue_sheet.tracks[i + 1].index = <<>>

\* C8 as stated: the final track, and any track whose next track has no
\* known timestamp, gets duration 0 on a multi-file sheet and the placeholder
\* of 180 seconds on a single-file sheet.
C8_PlaceholderOnSingleFile ==
    pc = "parsed" =>
        \A i \in 1..Len(cue_sheet.tracks) :
            OpenEnded(i) =>
                cue_sheet.tracks[i].duration = IF SingleFile THEN 180 ELSE 0

\* C8 amended: the final track, and any track whose next track has no known
\* timestamp, gets duration 0, on single-file and multi-file sheets alike.
C8_OpenEndedDurationIsZero ==
    pc = "parsed" =>
        \A i \in 1..Len(cue_sheet.tracks) :
            OpenEnded(i) => cue_sheet.tracks[i].duration = 0

C8_Witness ==
    /\ pc = "parsed"
    /\ SingleFile
    /\ Len(cue_sheet.tracks) = 2
    /\ cue_sheet.tracks[1].file = <<"a", ".", "w", "a", "v">>
    /\ cue_sheet.tracks[1].index = <<"0", "3", ":", "3", "0", ":", "0", "0">>
    /\ cue_sheet.tracks[2].index = <<>>
    /\ cue_sheet.tracks[1].duration = 0
    /\ cue_sheet.tracks[2].duration = 0

\* C9: a timestamp MM:SS:FF converts to MM*60 + SS + floor(FF/75), which for
\* FF in 0..74 is MM*60 + SS ("03:02:37" gives 182); a string without three
\* colon-separated parts converts to 0.
C9_SecondsOfTimestamp ==
    pc = "index_done" =>
        /\ IsClock(index) =>
              /\ seconds = <<ClockSeconds(index)
                               + (TwoDigits(index, 7) \div FramesPerSecond)>>
              /\ TwoDigits(index, 7) <= 74 => seconds = <<ClockSeconds(index)>>
        /\ index = <<"0", "3", ":", "0", "2", ":", "3", "7">> => seconds = <<182>>
        /\ Cardinality({k \in 1..Len(index) : index[k] = ":"}) # 2
              => seconds = <<0>>

C9_Witness ==
    /\ pc = "index_done"
    /\ index = <<"0", "3", ":", "0", "2", ":", "3", "7">>
    /\ seconds = <<182>>

\* "NN" for a track number below 100
TwoDigitNumber(n) == <<DigitSeq[(n \div 10) + 1], DigitSeq[(n % 10) + 1]>>

\* the display title C10 prescribes for a track
ExpectedTitle(t) ==
    LET eff == IF t.performer # <<>> THEN t.performer ELSE cue_sheet.performer
    IN IF t.title = <<>> THEN <<"T", "r", "a", "c", "k", " ">> \o TwoDigitNumber(t.number)
       ELSE IF eff = <<>> THEN t.title
       ELSE eff \o <<" ", "-", " ">> \o t.title

\* C10: the metadata line written for a track ends, after the comma, in
\* "{performer} - {title}" when the track has a title and an effective
\* performer (own, else the sheet's), in the bare title when it has a title
\* and no effective performer, and in "Track NN" when it has no title.
C10_DisplayTitle ==
    (pc = "done" /\ opts[1].extended) =>
        \A i \in 1..Len(cue_sheet.tracks) :
            out[2 * i] = <<"#", "E", "X", "T", "I", "N", "F", ":">>
                            \o IntToStr(cue_sheet.tracks[i].duration)
                            \o <<",">> \o ExpectedTitle(cue_sheet.tracks[i])

C10_Witness ==
    /\ pc = "done"
    /\ opts[1].extended
    /\ Len(cue_sheet.tracks) = 2
    /\ cue_sheet.performer = <<"P">>
    /\ cue_sheet.tracks[1].performer = <<>>
    /\ cue_sheet.tracks[1].title = <<"T">>
    /\ out[2] = <<"#", "E", "X", "T", "I", "N", "F", ":", "0", ",", "P", " ", "-", " ", "T">>
    /\ out[4] = <<"#", "E", "X", "T", "I", "N", "F", ":", "0", ",", "T", "r", "a", "c", "k", " ", "0", "1">>

\* p ends with the characters of e
EndsWith(p, e) ==
    Len(p) >= Len(e) /\ SubSeq(p, Len(p) - Len(e) + 1, Len(p)) = e

\* the path C11 prescribes for a stored path: only an extension "wav" (the
\* text after the last dot) is replaced, by "flac"
SubstitutedPath(p, wav_to_flac) ==
    IF wav_to_flac /\ EndsWith(p, <<".", "w", "a", "v">>)
    THEN SubSeq(p, 1, Len(p) - 3) \o <<"f", "l", "a", "c">>
    ELSE p

\* C11: with relative paths, a stored path is written with its extension
\* replaced by "flac" exactly when substitution is on and the extension is
\* "wav"; every other path (".wave", a name without dot ending in wav), and
\* every path when substitution is off, is written unchanged.
C11_ExactExtensionOnly ==
    (pc = "done" /\ opts[1].relative_paths) =>
        \A i \in 1..Len(cue_sheet.tracks) :
            cue_sheet.tracks[i].file # <<>> =>
                PathLineAt(i) = SubstitutedPath(cue_sheet.tracks[i].file,
                                                opts[1].wav_to_flac)

\* n as three decimal digits, n < 1000
ThreeDigits(n) ==
    <<DigitSeq[(n \div 100) + 1], DigitSeq[((n \div 10) % 10) + 1],
      DigitSeq[(n % 10) + 1]>>

\* "#t=" and minutes*60 + seconds + frames/75 to three decimal places, for a
\* DD:DD:DD timestamp
StartTimeFragment(s) ==
    LET frames == TwoDigits(s, 7)
        whole == ClockSeconds(s) + (frames \div FramesPerSecond)
        milli == (2000 * (frames % FramesPerSecond) + FramesPerSecond)
                     \div (2 * FramesPerSecond)
    IN <<"#", "t", "=">> \o NatToStr(whole) \o <<".">> \o ThreeDigits(milli)

\* the text "#t=" occurs in l
HasFragment(l) ==
    \E k \in 1..(Len(l) - 2) : SubSeq(l, k, k + 2) = <<"#", "t", "=">>

\* C12: whichever way the caller sets single_file_timestamps (convert_to_m3u
\* has no such parameter, so its output cannot depend on it): when it is on,
\* the path line of every track with a known timestamp ends in the start-time
\* fragment; tracks without timestamp, and all tracks when it is off, get no
\* fragment.
C12_StartTimeFragment ==
    \A single_file_timestamps \in BOOLEAN :
        pc = "done" =>
            \A i \in 1..Len(cue_sheet.tracks) :
                IF single_file_timestamps /\ cue_sheet.tracks[i].index # <<>>
                THEN EndsWith(PathLineAt(i),
                              StartTimeFragment(cue_sheet.tracks[i].index))
                ELSE ~HasFragment(PathLineAt(i))

\* C13: without extension substitution, a stored path is written as it is
\* with relative paths on; with relative paths off a relative path is written
\* resolved against the directory of the CUE document, whatever the working
\* directory of the process.
C13_ResolvedAgainstCueDir ==
    (pc = "done" /\ ~opts[1].wav_to_flac) =>
        \A i \in 1..Len(cue_sheet.tracks) :
            LET p == cue_sheet.tracks[i].file IN
            p # <<>> =>
                PathLineAt(i) = IF opts[1].relative_paths \/ p[1] = "/"
                                THEN p
                                ELSE CueDir \o <<"/">> \o p

\* a line of the playlist that is not a comment
IsPathLine(l) == l = <<>> \/ l[1] # "#"

\* C14: with extended output, relative paths and no substitution, the
\* non-comment lines of the output are, in track order, the effective file
\* paths (own, else the sheet's) of the tracks, one per track.
C14_RoundTrip ==
    (/\ pc = "done"
     /\ opts[1].extended
     /\ opts[1].relative_paths
     /\ ~opts[1].wav_to_flac) =>
        SelectSeq(out, IsPathLine)
            = [i \in 1..Len(cue_sheet.tracks) |->
                  EffectiveFile(cue_sheet.tracks[i])]

\* C15: rendering again with the options of the previous render leaves the
\* output file as it was (the new content replaces the old, nothing is
\* appended or left over), and no render changes the sheet or its tracks.
C15_RenderTwiceSameOutput ==
    [][/\ (pc = "done" /\ pc' = "done" /\ opts' = opts) => out' = out
       /\ pc' = "done" => cue_sheet' = cue_sheet]_vars

C15_Witness ==
    /\ pc = "done"
    /\ opts[1].extended
    /\ ~opts[1].relative_paths
    /\ Len(cue_sheet.tracks) = 2
    /\ Len(out) = 5
    /\ out[3] = cwd \o <<"/">> \o <<"a", ".", "f", "l", "a", "c">>
    /\ out[5] = cwd

\* C17: in a sheet returned by parse_cue_file the track numbers are strictly
\* increasing along the track list, hence pairwise distinct.
C17_PositionsIncreasing ==
    pc \in {"parsed", "done"} =>
        \A i \in 1..Len(cue_sheet.tracks) : \A j \in 1..Len(cue_sheet.tracks) :
            i < j => cue_sheet.tracks[i].number < cue_sheet.tracks[j].number

\* title, performer, file and file type of the sheet
SheetLevel(sheet) ==
    <<sheet.title, sheet.performer, sheet.file, sheet.file_type>>

\* C19: once the first TRACK line has been read the sheet-level title,
\* performer, file and file type never change and a track stays open, so
\* every later well-formed TRACK line inherits the same sheet-level file;
\* that file is the one of the last well-formed FILE line read before the
\* first TRACK line, because before it only such a line changes it.
C19_SheetFrozenAfterFirstTrack ==
    [][/\ track_lines # <<>> =>
             /\ SheetLevel(cue_sheet') = SheetLevel(cue_sheet)
             /\ pc' = "parse" => current_track' # None
       /\ (Consumed("TRACK") /\ TrackMatch(line').matched) =>
             /\ current_track'[1].file = cue_sheet'.file
             /\ current_track'[1].file_type = cue_sheet'.file_type
       /\ track_lines = <<>> =>
             IF Consumed("FILE") /\ FileMatch(line').matched
             THEN cue_sheet'.file = FileMatch(line').groups[1]
             ELSE cue_sheet'.file = cue_sheet.file]_vars

C19_Witness ==
    /\ pc = "parse"
    /\ line = Strip(rTRACK_2)
    /\ cue_sheet.file = <<"a", ".", "w", "a", "v">>
    /\ Len(cue_sheet.tracks) = 1
    /\ cue_sheet.tracks[1].file = <<"b", ".", "m", "p", "3">>
    /\ current_track # None
    /\ current_track[1].file = <<"a", ".", "w", "a", "v">>

\* at least one of the three decoding steps can read the file
CanDecode == dec.utf8 = "ok" \/ dec.ansi = "ok" \/ dec.detect = "ok"

\* C18: for an existing file, when parse_cue_file has finished opening it:
\* if any of the three steps can decode the bytes the lines were read, and
\* it failed only after all three steps were tried, in order, and then with
\* a decode error.
C18_FallbackChain ==
    (dec.exists /\ dec.step \in {"decoded", "failed"}) =>
        /\ CanDecode => dec.step = "decoded"
        /\ dec.step = "failed" =>
              /\ dec.tried = <<"utf-8", "ANSI", "detect">>
              /\ dec.raised = <<"UnicodeDecodeError">>


(***************************************************************************)
(* The batch run of the graphical interface.                               *)
(***************************************************************************)
\* the worker has written its summary and ended
RunFinished ==
    /\ gui.worker = "none"
    /\ gui.log # <<>>
    /\ gui.log[Len(gui.log)].kind = "summary"

\* the log lines of the run
RunLog == gui.log

FilesOf(entries) == [i \in 1..Len(entries) |-> entries[i].file]

RECURSIVE SumTracks(_)
SumTracks(entries) ==
    IF entries = <<>> THEN 0 ELSE Head(entries).tracks + SumTracks(Tail(entries))

IsOk(e) == e.kind = "ok"
IsError(e) == e.kind = "error"
\* convert_file was called for the entry's file
IsAttempt(e) == IsOk(e) \/ (IsError(e) /\ e.exc \in ConvertErrors)

RunSummary == RunLog[Len(RunLog)]

\* C16: in a batch, a failure of one document is caught and reported with
\* that document's name, every other document of the batch is still converted,
\* in order, and the final tally counts exactly the documents converted and
\* the sum of their track counts.
C16_FailureIsolated ==
    RunFinished =>
        LET failed == {RunLog[i].file : i \in {j \in 1..Len(RunLog) :
                                                   IsError(RunLog[j])}}
            converted == SelectSeq(RunLog, IsOk)
            NotFailed(f) == f \notin failed
        IN  /\ failed \subseteq {gui.pressed[i] : i \in 1..Len(gui.pressed)}
            /\ FilesOf(converted) = SelectSeq(gui.pressed, NotFailed)
            /\ RunSummary.ok = Len(converted)
            /\ RunSummary.tracks = SumTracks(converted)

\* C20: one press of Convert attempts each document that was in the list at
\* the press exactly once, in list order, and the total reported is the
\* number of documents attempted.
C20_BatchIsThePressedList ==
    RunFinished =>
        LET attempted == SelectSeq(RunLog, IsAttempt)
        IN  /\ FilesOf(attempted) = gui.pressed
            /\ RunSummary.total = Len(attempted)


\* a step that starts a worker thread
StartsWorker == gui'.threads > gui.threads

C22_DistinctOutputPaths ==
    \A j, k \in 1..Len(batch.written) :
        batch.written[j].file # batch.written[k].file
            => batch.written[j].path # batch.written[k].path

\* the same, for runs that write beside each input only
DistinctBesideInputs ==
    batch.batch_mode => C22_DistinctOutputPaths

====
